---- MODULE Spec2Model ----
(***************************************************************************)
(* Radix-tree URL router of package httprouter (node.AddRoute,             *)
(* node.insertChild, node.incrementChildNodePriorityAndSwapIfNeeded,       *)
(* node.Resolve, PathParameters).                                          *)
(*                                                                         *)
(* Strings are sequences of one-byte strings; Go's zero-based indexing and *)
(* half-open slices are kept through At and Slice.  The tree is a heap:    *)
(* `nodes` is a sequence of node records, a *node is an index into it and  *)
(* the receiver of the public calls (the root) is index Root.  A panic of  *)
(* AddRoute keeps the writes made before it, as recover() would find them. *)
(***************************************************************************)
EXTENDS Integers, Sequences, FiniteSets, TLC

VARIABLES nodes, routes, calls, failures, op, res

vars == <<nodes, routes, calls, failures, op, res>>

-----------------------------------------------------------------------------
(* Bounds *)

\* number of AddRoute calls made on one tree
MaxCalls == 3

-----------------------------------------------------------------------------
(* Go string and slice helpers *)

At(s, i) == s[i + 1]

Slice(s, from, to) == SubSeq(s, from + 1, to)

SliceFrom(s, from) == SubSeq(s, from + 1, Len(s))

min(a, b) == IF a < b THEN a ELSE b

\* a slip in the scan: only the first byte of s is looked at
IndexOfFirstOnly(s, c) == IF Len(s) > 0 /\ s[1] = c THEN 1 ELSE 0

\* 1-based position of the first occurrence of c in s, 0 when absent
\* (the `for i, c := range n.indices` scans that stop at the first hit)
IndexOf(s, c) ==
    IF \E k \in 1..Len(s) : s[k] = c
    THEN CHOOSE k \in 1..Len(s) : s[k] = c /\ \A j \in 1..(k - 1) : s[j] # c
    ELSE 0

Uint8Dec(x) == (x + 255) % 256

-----------------------------------------------------------------------------
(* Panic messages *)

PanicPatternPathWildcardConflict == "conflicting wildcard path"
PanicPatternHandlerAlreadyExists == "a handler already exists for path"
PanicPatternMultipleWildcardsInOnePathSegment == "multiple wildcards in path"
PanicPatternNodeHasNoChildAtPosition == "a node has no child node at position"
PanicPatternWildcardSegmentConflictWithExistingChild == "wildcard segment conflicts with an existing child"
PanicEmptyWildcardName == "wildcards must be named with a non-empty name"
PanicCatchAllNotAtEnd == "catch-all routes are only allowed at the end of the path"
PanicCatchAllConflictsWithRoot == "catch-all conflicts with existing handle for the path segment root"
PanicNoSlashBeforeCatchAll == "no / before catch-all"
PanicInvalidNodeType == "invalid node type"
PanicIndexOutOfRange == "runtime error: index out of range"
PanicSliceBoundsOutOfRange == "runtime error: slice bounds out of range"
NoPanic == ""

-----------------------------------------------------------------------------
(* node *)

NilHandler == 0

Root == 1

\* the zero value of struct node
ZeroNode ==
    [path |-> <<>>, routePath |-> <<>>, children |-> <<>>, indices |-> <<>>,
     wildChild |-> FALSE, nodeType |-> "static", maxParameters |-> 0,
     priority |-> 0, handler |-> NilHandler]

\* &node{...}: the new node's pointer is Len(h) + 1
Alloc(h, n) == Append(h, n)

\* the count converted to uint8 without the test `n >= 255`
countRequestPathParamsWrapping(path) ==
    Cardinality({i \in 1..Len(path) : path[i] \in {":", "*"}}) % 256

countRequestPathParams(path) ==
    LET n == Cardinality({i \in 1..Len(path) : path[i] \in {":", "*"}})
    IN IF n >= 255 THEN 255 ELSE n

RECURSIVE commonPrefixFrom(_, _, _)
commonPrefixFrom(path1, path2, pos) ==
    IF pos < min(Len(path1), Len(path2)) /\ At(path1, pos) = At(path2, pos)
    THEN commonPrefixFrom(path1, path2, pos + 1)
    ELSE pos

commonPrefixLength(path1, path2) == commonPrefixFrom(path1, path2, 0)

Ok(h) == [nodes |-> h, err |-> NoPanic]

Panic(h, msg) == [nodes |-> h, err |-> msg]

-----------------------------------------------------------------------------
(* incrementChildNodePriorityAndSwapIfNeeded *)

\* a slip in the comparison: the child also moves past left neighbours of
\* equal priority
RECURSIVE swapLoopPastEqual(_, _, _, _, _)
swapLoopPastEqual(h, n, pos, siblingChildPos, priority) ==
    IF siblingChildPos < 0 \/ h[h[n].children[siblingChildPos + 1]].priority > priority
    THEN [nodes |-> h, pos |-> pos, err |-> NoPanic]
    ELSE LET ch == h[n].children
             ix == h[n].indices
             ch2 == [ch EXCEPT ![siblingChildPos + 1] = ch[pos + 1],
                               ![pos + 1] = ch[siblingChildPos + 1]]
             ix2 == [ix EXCEPT ![siblingChildPos + 1] = ix[pos + 1],
                               ![pos + 1] = ix[siblingChildPos + 1]]
             h2 == [h EXCEPT ![n].children = ch2, ![n].indices = ix2]
         IN IF pos >= Len(ix)
            THEN [nodes |-> [h EXCEPT ![n].children = ch2], pos |-> pos,
                  err |-> PanicIndexOutOfRange]
            ELSE swapLoopPastEqual(h2, n, pos - 1, siblingChildPos - 1, priority)

\* the sibling loop: returns the heap and the final position (zero-based)
RECURSIVE swapLoop(_, _, _, _, _)
swapLoop(h, n, pos, siblingChildPos, priority) ==
    IF siblingChildPos < 0 \/ h[h[n].children[siblingChildPos + 1]].priority >= priority
    THEN [nodes |-> h, pos |-> pos, err |-> NoPanic]
    ELSE LET ch == h[n].children
             ix == h[n].indices
             ch2 == [ch EXCEPT ![siblingChildPos + 1] = ch[pos + 1],
                               ![pos + 1] = ch[siblingChildPos + 1]]
             ix2 == [ix EXCEPT ![siblingChildPos + 1] = ix[pos + 1],
                               ![pos + 1] = ix[siblingChildPos + 1]]
             h2 == [h EXCEPT ![n].children = ch2, ![n].indices = ix2]
         IN IF pos >= Len(ix)
            THEN [nodes |-> [h EXCEPT ![n].children = ch2], pos |-> pos,
                  err |-> PanicIndexOutOfRange]
            ELSE swapLoop(h2, n, pos - 1, siblingChildPos - 1, priority)

\* a slip in the reordering: the priority is raised but the child stays put
incrementChildNodePriorityWithoutSwap(h, n, posOfChildToPrioritize) ==
    IF posOfChildToPrioritize >= Len(h[n].children)
    THEN [nodes |-> h, pos |-> posOfChildToPrioritize,
          err |-> PanicPatternNodeHasNoChildAtPosition]
    ELSE [nodes |-> [h EXCEPT ![h[n].children[posOfChildToPrioritize + 1]].priority = @ + 1],
          pos |-> posOfChildToPrioritize, err |-> NoPanic]

incrementChildNodePriorityAndSwapIfNeeded(h, n, posOfChildToPrioritize) ==
    IF posOfChildToPrioritize >= Len(h[n].children)
    THEN [nodes |-> h, pos |-> posOfChildToPrioritize,
          err |-> PanicPatternNodeHasNoChildAtPosition]
    ELSE LET c == h[n].children[posOfChildToPrioritize + 1]
             h1 == [h EXCEPT ![c].priority = @ + 1]
             priority == h1[c].priority
         IN IF posOfChildToPrioritize = 0
            THEN [nodes |-> h1, pos |-> 0, err |-> NoPanic]
            ELSE swapLoop(h1, n, posOfChildToPrioritize,
                          posOfChildToPrioritize - 1, priority)

-----------------------------------------------------------------------------
(* insertChild *)

\* a slip in the inner scan: a second marker is taken for a byte of the name
RECURSIVE wildcardEndAtSlash(_, _)
wildcardEndAtSlash(path, end) ==
    IF end < Len(path) /\ At(path, end) # "/"
    THEN wildcardEndAtSlash(path, end + 1)
    ELSE end

\* the inner scan `for end < max && path[end] != '/'`: the index of the end
\* of the wildcard name, or -1 when a second ':' or '*' is met first
RECURSIVE wildcardEnd(_, _)
wildcardEnd(path, end) ==
    IF end < Len(path) /\ At(path, end) # "/"
    THEN IF At(path, end) \in {":", "*"} THEN -1 ELSE wildcardEnd(path, end + 1)
    ELSE end

\* the `:name` branch (lines 406-434); returns the loop state it leaves
insertParam(h, n, parameterCount, i, offset, end, routePath, path) ==
    LET max == Len(path)
        h1 == IF i > 0 THEN [h EXCEPT ![n].path = Slice(path, offset, i)] ELSE h
        offset1 == IF i > 0 THEN i ELSE offset
        child == Len(h1) + 1
        h2 == Alloc(h1, [ZeroNode EXCEPT !.routePath = routePath,
                                         !.nodeType = "param",
                                         !.maxParameters = parameterCount])
        h3 == [h2 EXCEPT ![n].children = <<child>>, ![n].wildChild = TRUE,
                         ![child].priority = @ + 1]
        parameterCount1 == Uint8Dec(parameterCount)
        child2 == Len(h3) + 1
        h4 == Alloc([h3 EXCEPT ![child].path = Slice(path, offset1, end)],
                    [ZeroNode EXCEPT !.maxParameters = parameterCount1,
                                     !.priority = 1])
        h5 == [h4 EXCEPT ![child].children = <<child2>>]
    IN IF end < max
       THEN [nodes |-> h5, n |-> child2, parameterCount |-> parameterCount1,
             offset |-> end]
       ELSE [nodes |-> h3, n |-> child, parameterCount |-> parameterCount1,
             offset |-> offset1]

\* the `*name` branch (lines 435-470)
insertCatchAll(h, n, parameterCount, i, offset, end, routePath, path, handler) ==
    LET max == Len(path)
        np == h[n].path
        j == i - 1
    IN IF end # max \/ parameterCount > 1
       THEN Panic(h, PanicCatchAllNotAtEnd)
       ELSE IF Len(np) > 0 /\ At(np, Len(np) - 1) = "/"
       THEN Panic(h, PanicCatchAllConflictsWithRoot)
       ELSE IF j < 0
       THEN Panic(h, PanicIndexOutOfRange)
       ELSE IF At(path, j) # "/"
       THEN Panic(h, PanicNoSlashBeforeCatchAll)
       ELSE IF offset > j
       THEN Panic(h, PanicSliceBoundsOutOfRange)
       ELSE LET child == Len(h) + 1
                h1 == Alloc([h EXCEPT ![n].path = Slice(path, offset, j)],
                            [ZeroNode EXCEPT !.wildChild = TRUE,
                                             !.nodeType = "catchAll",
                                             !.maxParameters = 1])
                h2 == [h1 EXCEPT ![n].children = <<child>>,
                                 ![n].indices = <<At(path, j)>>,
                                 ![child].priority = @ + 1]
                leaf == Len(h2) + 1
                h3 == Alloc(h2, [ZeroNode EXCEPT !.path = SliceFrom(path, j),
                                                 !.routePath = routePath,
                                                 !.nodeType = "catchAll",
                                                 !.maxParameters = 1,
                                                 !.handler = handler,
                                                 !.priority = 1])
            IN Ok([h3 EXCEPT ![child].children = <<leaf>>])

\* a slip in the conflict check: the children of the node are not looked at
hasExistingChildNever(h, n) == FALSE

\* `if len(n.children) > 0` before a wildcard is inserted (lines 386-389)
hasExistingChild(h, n) == Len(h[n].children) > 0

\* a slip in the name check: the marker alone passes for a name
wildcardNameIsEmptyNever(i, end) == FALSE

\* `if end-i < 2`: nothing between the marker and the end of the segment
\* (lines 402-404)
wildcardNameIsEmpty(i, end) == end - i < 2

RECURSIVE insertChildLoop(_, _, _, _, _, _, _, _)
insertChildLoop(h, n, parameterCount, i, offset, routePath, path, handler) ==
    IF parameterCount = 0
    THEN Ok([h EXCEPT ![n].path = SliceFrom(path, offset), ![n].handler = handler])
    ELSE IF i >= Len(path)
    THEN Panic(h, PanicIndexOutOfRange)
    ELSE IF At(path, i) \notin {":", "*"}
    THEN insertChildLoop(h, n, parameterCount, i + 1, offset, routePath, path, handler)
    ELSE IF hasExistingChild(h, n)
    THEN Panic(h, PanicPatternWildcardSegmentConflictWithExistingChild)
    ELSE LET end == wildcardEnd(path, i + 1)
         IN IF end = -1
            THEN Panic(h, PanicPatternMultipleWildcardsInOnePathSegment)
            ELSE IF wildcardNameIsEmpty(i, end)
            THEN Panic(h, PanicEmptyWildcardName)
            ELSE IF At(path, i) = ":"
            THEN LET s == insertParam(h, n, parameterCount, i, offset, end, routePath, path)
                 IN insertChildLoop(s.nodes, s.n, s.parameterCount, i + 1, s.offset,
                                    routePath, path, handler)
            ELSE insertCatchAll(h, n, parameterCount, i, offset, end, routePath, path, handler)

insertChild(h, n, parameterCount, routePath, path, handler) ==
    insertChildLoop(h, n, parameterCount, 0, 0, routePath, path, handler)

-----------------------------------------------------------------------------
(* AddRoute *)

maxOfChildren(h, ch) ==
    IF ch = <<>> THEN 0
    ELSE CHOOSE m \in {h[ch[k]].maxParameters : k \in 1..Len(ch)} :
            \A k \in 1..Len(ch) : h[ch[k]].maxParameters <= m

\* a slip in the split: the child keeps the priority of the node
splitChildSamePriority(h, n, pos) ==
    [ZeroNode EXCEPT !.path = SliceFrom(h[n].path, pos),
                     !.wildChild = h[n].wildChild,
                     !.indices = h[n].indices,
                     !.children = h[n].children,
                     !.handler = h[n].handler,
                     !.priority = h[n].priority,
                     !.maxParameters = maxOfChildren(h, h[n].children)]

\* a slip in the split: the child does not take over the handler
splitChildDropsHandler(h, n, pos) ==
    [ZeroNode EXCEPT !.path = SliceFrom(h[n].path, pos),
                     !.wildChild = h[n].wildChild,
                     !.indices = h[n].indices,
                     !.children = h[n].children,
                     !.priority = h[n].priority - 1,
                     !.maxParameters = maxOfChildren(h, h[n].children)]

\* the child literal of the split (lines 133-147)
splitChild(h, n, pos) ==
    [ZeroNode EXCEPT !.path = SliceFrom(h[n].path, pos),
                     !.wildChild = h[n].wildChild,
                     !.indices = h[n].indices,
                     !.children = h[n].children,
                     !.handler = h[n].handler,
                     !.priority = h[n].priority - 1,
                     !.maxParameters = maxOfChildren(h, h[n].children)]

\* a slip in the split: the node keeps its wildChild flag
splitNodeKeepsWildChild(h, n, pos, path) ==
    LET child == Len(h) + 1
        h1 == Alloc(h, splitChild(h, n, pos))
    IN [h1 EXCEPT ![n].children = <<child>>,
                  ![n].indices = <<At(h[n].path, pos)>>,
                  ![n].path = Slice(path, 0, pos),
                  ![n].handler = NilHandler]

\* a slip in the split: the node keeps its handler
splitNodeKeepsHandler(h, n, pos, path) ==
    LET child == Len(h) + 1
        h1 == Alloc(h, splitChild(h, n, pos))
    IN [h1 EXCEPT ![n].children = <<child>>,
                  ![n].indices = <<At(h[n].path, pos)>>,
                  ![n].path = Slice(path, 0, pos),
                  ![n].wildChild = FALSE]

\* the split of node n at common-prefix length pos (lines 131-154)
splitNode(h, n, pos, path) ==
    LET child == Len(h) + 1
        h1 == Alloc(h, splitChild(h, n, pos))
    IN [h1 EXCEPT ![n].children = <<child>>,
                  ![n].indices = <<At(h[n].path, pos)>>,
                  ![n].path = Slice(path, 0, pos),
                  ![n].handler = NilHandler,
                  ![n].wildChild = FALSE]

\* a slip at the leaf: the handler is stored before the duplicate is noticed
setHandlerThenPanic(h, n, routePath, handler) ==
    IF h[n].handler # NilHandler
    THEN Panic([h EXCEPT ![n].routePath = routePath, ![n].handler = handler],
               PanicPatternHandlerAlreadyExists)
    ELSE Ok([h EXCEPT ![n].routePath = routePath, ![n].handler = handler])

\* the pattern ends at node n (lines 216-224)
setHandler(h, n, routePath, handler) ==
    IF h[n].handler # NilHandler
    THEN Panic(h, PanicPatternHandlerAlreadyExists)
    ELSE Ok([h EXCEPT ![n].routePath = routePath, ![n].handler = handler])

\* lines 202-215: no child starts with the next byte
addChild(h, n, parameterCount, routePath, path, handler) ==
    LET characterAtIndex == At(path, 0)
        child == Len(h) + 1
        h1 == Alloc([h EXCEPT ![n].indices = Append(@, characterAtIndex)],
                    [ZeroNode EXCEPT !.routePath = routePath,
                                     !.maxParameters = parameterCount])
        h2 == [h1 EXCEPT ![n].children = Append(@, child)]
        r == incrementChildNodePriorityAndSwapIfNeeded(h2, n, Len(h2[n].indices) - 1)
    IN IF characterAtIndex \notin {":", "*"}
       THEN IF r.err # NoPanic
            THEN Panic(r.nodes, r.err)
            ELSE insertChild(r.nodes, child, parameterCount, routePath, path, handler)
       ELSE insertChild(h, n, parameterCount, routePath, path, handler)

\* a slip in the wild-child check: a common prefix is taken for the wildcard
sameWildcardByPrefix(nodePath, path) ==
    /\ Len(path) >= Len(nodePath)
    /\ nodePath = Slice(path, 0, Len(nodePath))

\* a slip in the wild-child check: the shorter of the two is compared, so a
\* pattern that stops inside the wild child's path is let through
sameWildcardEitherPrefix(nodePath, path) ==
    LET k == min(Len(nodePath), Len(path))
    IN /\ Slice(nodePath, 0, k) = Slice(path, 0, k)
       /\ (Len(nodePath) >= Len(path) \/ At(path, Len(nodePath)) = "/")

\* the rest of the pattern starts with the wild child's path, and the
\* wildcard's name ends there (lines 170-174)
sameWildcard(nodePath, path) ==
    /\ Len(path) >= Len(nodePath)
    /\ nodePath = Slice(path, 0, Len(nodePath))
    /\ (Len(nodePath) >= Len(path) \/ At(path, Len(nodePath)) = "/")

\* the loop labelled walk (lines 120-226), one iteration per call
RECURSIVE walk(_, _, _, _, _, _)
walk(h, n, path, parameterCount, routePath, handler) ==
    LET h1 == IF parameterCount > h[n].maxParameters
              THEN [h EXCEPT ![n].maxParameters = parameterCount] ELSE h
        pos == commonPrefixLength(path, h1[n].path)
        h2 == IF pos < Len(h1[n].path) THEN splitNode(h1, n, pos, path) ELSE h1
    IN IF pos < Len(path)
       THEN LET rest == SliceFrom(path, pos)
                characterAtIndex == At(rest, 0)
            IN IF h2[n].wildChild
               THEN IF Len(h2[n].children) = 0
                    THEN Panic(h2, PanicIndexOutOfRange)
                    ELSE
                    LET c == h2[n].children[1]
                        h3 == [h2 EXCEPT ![c].priority = @ + 1,
                                         ![c].maxParameters =
                                             IF parameterCount > @ THEN parameterCount ELSE @]
                        cp == h3[c].path
                    IN IF sameWildcard(cp, rest)
                       THEN walk(h3, c, rest, Uint8Dec(parameterCount), routePath, handler)
                       ELSE Panic(h3, PanicPatternPathWildcardConflict)
               ELSE IF /\ h2[n].nodeType = "param"
                       /\ characterAtIndex = "/"
                       /\ Len(h2[n].children) = 1
               THEN LET c == h2[n].children[1]
                    IN walk([h2 EXCEPT ![c].priority = @ + 1], c, rest,
                            parameterCount, routePath, handler)
               ELSE IF IndexOf(h2[n].indices, characterAtIndex) # 0
               THEN LET r == incrementChildNodePriorityAndSwapIfNeeded(
                                 h2, n, IndexOf(h2[n].indices, characterAtIndex) - 1)
                    IN IF r.err # NoPanic
                       THEN Panic(r.nodes, r.err)
                       ELSE walk(r.nodes, r.nodes[n].children[r.pos + 1], rest,
                                 parameterCount, routePath, handler)
               ELSE addChild(h2, n, parameterCount, routePath, rest, handler)
       ELSE \* pos == len(path)
            setHandler(h2, n, routePath, handler)

AddRouteOn(h, path, handler) ==
    LET h1 == [h EXCEPT ![Root].priority = @ + 1]
        parameterCount == countRequestPathParams(path)
    IN IF Len(h1[Root].path) > 0 \/ Len(h1[Root].children) > 0
       THEN walk(h1, Root, path, parameterCount, path, handler)
       ELSE insertChild(h1, Root, parameterCount, path, path, handler)

-----------------------------------------------------------------------------
(* PathParameters *)

\* a nil *PathParameters
NilPathParameters == [nil |-> TRUE, route |-> <<>>, parameters |-> <<>>, cap |-> 0]

\* a slip in the allocation: room for one parameter less
NewPathParametersShort(route, parameterCount) ==
    [nil |-> FALSE, route |-> route, parameters |-> <<>>,
     cap |-> IF parameterCount > 0 THEN parameterCount - 1 ELSE 0]

NewPathParameters(route, parameterCount) ==
    [nil |-> FALSE, route |-> route, parameters |-> <<>>, cap |-> parameterCount]

\* a slip in the index: the new parameter is stored in front of the others
appendParameterInFront(ps, key, value) ==
    [ps EXCEPT !.parameters = <<[Key |-> key, Value |-> value]>> \o @]

\* ps.parameters = ps.parameters[:i+1]; ps.parameters[i] = {key, value}
appendParameter(ps, key, value) ==
    [ps EXCEPT !.parameters = Append(@, [Key |-> key, Value |-> value])]

\* PathParameters.GetParameters
GetParameters(p) == p.parameters

\* PathParameters.AddParameter; beyond the capacity the reslice panics and the
\* object is as before
AddParameter(p, key, value) ==
    IF Len(p.parameters) + 1 > p.cap
    THEN [p |-> p, err |-> PanicSliceBoundsOutOfRange]
    ELSE [p |-> appendParameter(p, key, value), err |-> NoPanic]

\* a slip in the map: a key already present keeps its value
putIfAbsent(parameterMap, key, value) ==
    [k \in DOMAIN parameterMap \cup {key} |->
       IF k \in DOMAIN parameterMap THEN parameterMap[k] ELSE value]

\* parameterMap[key] = value
put(parameterMap, key, value) ==
    [k \in DOMAIN parameterMap \cup {key} |-> IF k = key THEN value ELSE parameterMap[k]]

\* the loop of ParameterMap from position index on (1-based)
RECURSIVE parameterMapFrom(_, _, _)
parameterMapFrom(parameters, index, parameterMap) ==
    IF index > Len(parameters)
    THEN parameterMap
    ELSE parameterMapFrom(parameters, index + 1,
                          put(parameterMap, parameters[index].Key, parameters[index].Value))

\* make(map[string]string)
EmptyMap == [k \in {} |-> <<>>]

\* PathParameters.ParameterMap
ParameterMap(p) == parameterMapFrom(p.parameters, 1, EmptyMap)

-----------------------------------------------------------------------------
(* Resolve *)

Result(handler, ps, tsr) == [handler |-> handler, ps |-> ps, tsr |-> tsr, panic |-> NoPanic]

ResolvePanic(ps, msg) == [handler |-> NilHandler, ps |-> ps, tsr |-> FALSE, panic |-> msg]

\* `if ps != nil && len(n.routePath) > 0 { ps.route = n.routePath }`
withRoute(h, n, ps) ==
    IF ~ps.nil /\ Len(h[n].routePath) > 0 THEN [ps EXCEPT !.route = h[n].routePath] ELSE ps

\* `case param` once ps has been extended (lines 277-307); n is the param node
resolveParam(h, n, path, end, ps) ==
    IF end < Len(path)
    THEN Result(NilHandler, ps, Len(path) = end + 1)
    ELSE IF h[n].handler # NilHandler
    THEN Result(h[n].handler, withRoute(h, n, ps), FALSE)
    ELSE IF Len(h[n].children) = 1
    THEN LET c == h[n].children[1]
         IN Result(NilHandler, ps, h[c].path = <<"/">> /\ h[c].handler # NilHandler)
    ELSE Result(NilHandler, ps, FALSE)

\* a slip in the order: the recommendation is worked out before the handler
\* is looked at, and goes out with the handler
resolveAtNodeRecommendingFirst(h, n, ps) ==
    LET i == IndexOf(h[n].indices, "/")
        tsr == /\ i # 0
               /\ i <= Len(h[n].children)
               /\ LET c == h[n].children[i]
                  IN h[c].path = <<"/">> /\ h[c].handler # NilHandler
    IN IF h[n].handler # NilHandler
       THEN Result(h[n].handler, withRoute(h, n, ps), tsr)
       ELSE IF i = 0
       THEN Result(NilHandler, ps, FALSE)
       ELSE IF i > Len(h[n].children)
       THEN ResolvePanic(ps, PanicIndexOutOfRange)
       ELSE LET c == h[n].children[i]
                ps1 == IF ~ps.nil THEN [ps EXCEPT !.route = h[c].routePath] ELSE ps
            IN IF tsr
               THEN Result(NilHandler, ps1, TRUE)
               ELSE IF h[c].nodeType = "catchAll"
               THEN IF Len(h[c].children) = 0
                    THEN ResolvePanic(ps1, PanicIndexOutOfRange)
                    ELSE Result(NilHandler, ps1,
                                h[h[c].children[1]].handler # NilHandler)
               ELSE Result(NilHandler, ps1, FALSE)

\* `else if path == n.path` (lines 327-356)
resolveAtNode(h, n, ps) ==
    IF h[n].handler # NilHandler
    THEN Result(h[n].handler, withRoute(h, n, ps), FALSE)
    ELSE LET i == IndexOf(h[n].indices, "/")
         IN IF i = 0
            THEN Result(NilHandler, ps, FALSE)
            ELSE IF i > Len(h[n].children)
            THEN ResolvePanic(ps, PanicIndexOutOfRange)
            ELSE LET c == h[n].children[i]
                     ps1 == IF ~ps.nil THEN [ps EXCEPT !.route = h[c].routePath] ELSE ps
                 IN IF h[c].path = <<"/">> /\ h[c].handler # NilHandler
                    THEN Result(NilHandler, ps1, TRUE)
                    ELSE IF h[c].nodeType = "catchAll"
                    THEN IF Len(h[c].children) = 0
                         THEN ResolvePanic(ps1, PanicIndexOutOfRange)
                         ELSE Result(NilHandler, ps1,
                                     h[h[c].children[1]].handler # NilHandler)
                    ELSE Result(NilHandler, ps1, FALSE)

\* the trailing recommendation (lines 358-368)
resolveFallback(h, n, path, ps) ==
    LET np == h[n].path
    IN Result(NilHandler, ps,
              \/ path = <<"/">>
              \/ /\ Len(np) = Len(path) + 1
                 /\ At(np, Len(path)) = "/"
                 /\ path = Slice(np, 0, Len(np) - 1)
                 /\ h[n].handler # NilHandler)

RECURSIVE paramEnd(_, _)
paramEnd(path, end) ==
    IF end < Len(path) /\ At(path, end) # "/" THEN paramEnd(path, end + 1) ELSE end

\* the loop labelled walk of Resolve (lines 239-369), one iteration per call
RECURSIVE resolveWalk(_, _, _, _)
resolveWalk(h, n, path, ps) ==
    LET np == h[n].path
    IN IF Len(path) > Len(np)
       THEN IF Slice(path, 0, Len(np)) = np
            THEN LET rest == SliceFrom(path, Len(np))
                 IN IF ~h[n].wildChild
                    THEN LET i == IndexOf(h[n].indices, At(rest, 0))
                         IN IF i # 0
                            THEN IF i > Len(h[n].children)
                                 THEN ResolvePanic(ps, PanicIndexOutOfRange)
                                 ELSE resolveWalk(h, h[n].children[i], rest, ps)
                            ELSE Result(NilHandler, ps,
                                        rest = <<"/">> /\ h[n].handler # NilHandler)
                    ELSE IF Len(h[n].children) = 0
                    THEN ResolvePanic(ps, PanicIndexOutOfRange)
                    ELSE LET c == h[n].children[1]
                             ps0 == IF ps.nil
                                    THEN NewPathParameters(h[c].routePath, h[c].maxParameters)
                                    ELSE ps
                         IN IF h[c].nodeType = "param"
                            THEN LET end == paramEnd(rest, 0)
                                     ps1 == appendParameter(ps0, SliceFrom(h[c].path, 1),
                                                            Slice(rest, 0, end))
                                 IN IF Len(ps0.parameters) + 1 > ps0.cap \/ Len(h[c].path) < 1
                                    THEN ResolvePanic(ps0, PanicSliceBoundsOutOfRange)
                                    ELSE IF end < Len(rest) /\ Len(h[c].children) > 0
                                    THEN resolveWalk(h, h[c].children[1],
                                                     SliceFrom(rest, end), ps1)
                                    ELSE resolveParam(h, c, rest, end, ps1)
                            ELSE IF h[c].nodeType = "catchAll"
                            THEN IF Len(ps0.parameters) + 1 > ps0.cap \/ Len(h[c].path) < 2
                                 THEN ResolvePanic(ps0, PanicSliceBoundsOutOfRange)
                                 ELSE Result(h[c].handler,
                                             appendParameter(ps0, SliceFrom(h[c].path, 2), rest),
                                             FALSE)
                            ELSE ResolvePanic(ps, PanicInvalidNodeType)
            ELSE resolveFallback(h, n, path, ps)
       ELSE IF path = np
       THEN resolveAtNode(h, n, ps)
       ELSE resolveFallback(h, n, path, ps)

Resolve(h, path) == resolveWalk(h, Root, path, NilPathParameters)

-----------------------------------------------------------------------------
(* findCaseInsensitivePath *)

\* the zero byte of the rune buffer
NulByte == "\\x00"

\* unicode.ToLower and unicode.ToUpper on the ASCII bytes of the model
ToLower(c) ==
    CASE c = "A" -> "a" [] c = "B" -> "b" [] c = "X" -> "x" [] c = "Y" -> "y"
      [] OTHER -> c

ToUpper(c) ==
    CASE c = "a" -> "A" [] c = "b" -> "B" [] c = "x" -> "X" [] c = "y" -> "Y"
      [] OTHER -> c

\* strings.EqualFold on ASCII strings
EqualFold(s, t) ==
    /\ Len(s) = Len(t)
    /\ \A k \in 1..Len(s) : ToLower(s[k]) = ToLower(t[k])

\* [4]byte{}
EmptyRuneBuffer == <<NulByte, NulByte, NulByte, NulByte>>

shiftNRuneBytes(rb, n) ==
    CASE n = 0 -> rb
      [] n = 1 -> <<rb[2], rb[3], rb[4], NulByte>>
      [] n = 2 -> <<rb[3], rb[4], NulByte, NulByte>>
      [] n = 3 -> <<rb[4], NulByte, NulByte, NulByte>>
      [] OTHER -> EmptyRuneBuffer

\* utf8.EncodeRune(rb[:], r) for a rune of one byte: only rb[0] is written
EncodeRune(rb, r) == [rb EXCEPT ![1] = r]

\* the rune-start search (lines 551-563) on ASCII bytes, each of which starts a
\* rune: the loop body runs only if npLen > 0 and then stops at off = 0 with
\* the byte oldPath[npLen]; with npLen = 0 the rune stays 0
runeAfterPrefix(oldPath, npLen) ==
    IF min(npLen, 3) > 0
    THEN [rv |-> At(oldPath, npLen), off |-> 0]
    ELSE [rv |-> NulByte, off |-> 0]

\* a []byte result: nil, or the bytes; panic carries a run-time panic
NilBytes == [nil |-> TRUE, bytes |-> <<>>, panic |-> NoPanic]

Bytes(b) == [nil |-> FALSE, bytes |-> b, panic |-> NoPanic]

BytesPanic(msg) == [nil |-> TRUE, bytes |-> <<>>, panic |-> msg]

\* lines 607-612 without the test of fixTrailingSlash
ciNothingFoundAlwaysFix(h, n, path, ciPath, fixTrailingSlash) ==
    IF path = <<"/">> /\ h[n].handler # NilHandler
    THEN Bytes(ciPath)
    ELSE NilBytes

\* lines 607-612: nothing found below a node without a wild child
ciNothingFound(h, n, path, ciPath, fixTrailingSlash) ==
    IF fixTrailingSlash /\ path = <<"/">> /\ h[n].handler # NilHandler
    THEN Bytes(ciPath)
    ELSE NilBytes

\* lines 662-686: the path ends at node n
ciAtNode(h, n, ciPath, fixTrailingSlash) ==
    IF h[n].handler # NilHandler
    THEN Bytes(ciPath)
    ELSE IF ~fixTrailingSlash
    THEN NilBytes
    ELSE LET i == IndexOf(h[n].indices, "/")
         IN IF i = 0
            THEN NilBytes
            ELSE IF i > Len(h[n].children)
            THEN BytesPanic(PanicIndexOutOfRange)
            ELSE LET c == h[n].children[i]
                 IN IF Len(h[c].path) = 1 /\ h[c].handler # NilHandler
                    THEN Bytes(Append(ciPath, "/"))
                    ELSE IF h[c].nodeType = "catchAll"
                    THEN IF Len(h[c].children) = 0
                         THEN BytesPanic(PanicIndexOutOfRange)
                         ELSE IF h[h[c].children[1]].handler # NilHandler
                         THEN Bytes(Append(ciPath, "/"))
                         ELSE NilBytes
                    ELSE NilBytes

\* lines 689-715: the walk loop has ended at node n with path left over
ciAfterWalk(h, n, path, ciPath, fixTrailingSlash) ==
    LET np == h[n].path
    IN IF ~fixTrailingSlash THEN NilBytes
       ELSE IF path = <<"/">> THEN Bytes(ciPath)
       ELSE IF h[n].handler = NilHandler THEN NilBytes
       ELSE IF Len(path) + 1 # Len(np) THEN NilBytes
       ELSE IF At(np, Len(path)) # "/" THEN NilBytes
       ELSE IF Len(path) < 1 THEN BytesPanic(PanicSliceBoundsOutOfRange)
       ELSE IF EqualFold(SliceFrom(path, 1), Slice(np, 1, Len(path)))
       THEN Bytes(ciPath \o np)
       ELSE NilBytes

\* lines 617-654: `case param`; c is the param node, path starts at the value
ciParam(h, c, path, end, ciPath, fixTrailingSlash) ==
    IF end < Len(path)
    THEN IF fixTrailingSlash /\ Len(path) = end + 1 THEN Bytes(ciPath) ELSE NilBytes
    ELSE IF h[c].handler # NilHandler
    THEN Bytes(ciPath)
    ELSE IF fixTrailingSlash /\ Len(h[c].children) = 1
    THEN LET d == h[c].children[1]
         IN IF h[d].path = <<"/">> /\ h[d].handler # NilHandler
            THEN Bytes(Append(ciPath, "/"))
            ELSE NilBytes
    ELSE NilBytes

\* a slip in the copy: the parameter value is lower-cased like a static part
appendParamValueLowerCased(ciPath, path, end) ==
    ciPath \o [k \in 1..end |-> ToLower(path[k])]

\* ciPath = append(ciPath, path[:end]...)
appendParamValue(ciPath, path, end) == ciPath \o Slice(path, 0, end)

\* one iteration of the loop labelled walk per call; `continue walk` and the
\* recursive call of the source are both calls of this operator
RECURSIVE findCaseInsensitivePathRec(_, _, _, _, _, _)
findCaseInsensitivePathRec(h, n, path, ciPath, rb, fixTrailingSlash) ==
    LET np == h[n].path
        npLen == Len(np)
    IN IF ~(Len(path) >= npLen
            /\ (npLen = 0 \/ EqualFold(Slice(path, 1, npLen), SliceFrom(np, 1))))
       THEN ciAfterWalk(h, n, path, ciPath, fixTrailingSlash)
       ELSE
       LET oldPath == path
           rest == SliceFrom(path, npLen)
           ci1 == ciPath \o np
       IN IF Len(rest) = 0
          THEN ciAtNode(h, n, ci1, fixTrailingSlash)
          ELSE IF ~h[n].wildChild
          THEN LET rb1 == shiftNRuneBytes(rb, npLen)
               IN IF rb1[1] # NulByte
                  THEN \* old rune not finished
                       LET i == IndexOf(h[n].indices, rb1[1])
                       IN IF i = 0
                          THEN ciNothingFound(h, n, rest, ci1, fixTrailingSlash)
                          ELSE IF i > Len(h[n].children)
                          THEN BytesPanic(PanicIndexOutOfRange)
                          ELSE findCaseInsensitivePathRec(h, h[n].children[i], rest, ci1,
                                                          rb1, fixTrailingSlash)
                  ELSE \* process a new rune
                       LET r == runeAfterPrefix(oldPath, npLen)
                           lo == ToLower(r.rv)
                           up == ToUpper(r.rv)
                           rbLo == shiftNRuneBytes(EncodeRune(rb1, lo), r.off)
                           rbUp == shiftNRuneBytes(EncodeRune(rbLo, up), r.off)
                           i == IndexOf(h[n].indices, rbLo[1])
                           k == IndexOf(h[n].indices, rbUp[1])
                           out == IF i = 0 THEN NilBytes
                                  ELSE IF i > Len(h[n].children)
                                  THEN BytesPanic(PanicIndexOutOfRange)
                                  ELSE findCaseInsensitivePathRec(h, h[n].children[i], rest,
                                                                  ci1, rbLo, fixTrailingSlash)
                       IN IF ~out.nil \/ out.panic # NoPanic
                          THEN out
                          ELSE IF up # lo /\ k # 0
                          THEN IF k > Len(h[n].children)
                               THEN BytesPanic(PanicIndexOutOfRange)
                               ELSE findCaseInsensitivePathRec(h, h[n].children[k], rest,
                                                               ci1, rbUp, fixTrailingSlash)
                          ELSE ciNothingFound(h, n, rest, ci1, fixTrailingSlash)
          ELSE IF Len(h[n].children) = 0
          THEN BytesPanic(PanicIndexOutOfRange)
          ELSE LET c == h[n].children[1]
               IN IF h[c].nodeType = "param"
                  THEN LET end == paramEnd(rest, 0)
                           ci2 == appendParamValue(ci1, rest, end)
                       IN IF end < Len(rest) /\ Len(h[c].children) > 0
                          THEN findCaseInsensitivePathRec(h, h[c].children[1],
                                                          SliceFrom(rest, end), ci2, rb,
                                                          fixTrailingSlash)
                          ELSE ciParam(h, c, rest, end, ci2, fixTrailingSlash)
                  ELSE IF h[c].nodeType = "catchAll"
                  THEN Bytes(ci1 \o rest)
                  ELSE BytesPanic(PanicInvalidNodeType)

\* returns (fixedPath, found); ciPath starts as an empty slice that is not nil
findCaseInsensitivePath(h, path, fixTrailingSlash) ==
    LET ciPath == findCaseInsensitivePathRec(h, Root, path, <<>>, EmptyRuneBuffer,
                                             fixTrailingSlash)
    IN [fixedPath |-> ciPath.bytes, found |-> ~ciPath.nil, panic |-> ciPath.panic]

-----------------------------------------------------------------------------
(* Inputs *)

\* the route patterns handed to AddRoute
Patterns ==
    { <<"/">>,
      <<"/", "a">>,
      <<"/", "a", "/">>,
      <<"/", "a", "b">>,
      <<"/", "a", "/", "b">>,
      <<"/", "b">>,
      <<"/", ":", "x">>,
      <<"/", ":", "x", "/">>,
      <<"/", ":", "x", "/", "a">>,
      <<"/", ":", "x", "/", ":", "y">>,
      <<"/", ":", "x", "/", ":", "y", "/">>,
      <<"/", ":", "x", "/", "*", "y">>,
      <<"/", "a", "/", ":", "x">>,
      <<"/", "a", "/", "*", "y">>,
      <<"/", "a", "/", "*", "y", "/", "b">>,
      <<"/", "*", "y">>,
      <<"/", ":", "y">>,
      <<"/", ":", "x", "y">>,
      <<"/", "*", "y", "y">>,
      <<"/", ":">>,
      <<"/", ":", "/">>,
      <<"/", "*">>,
      <<"/", ":", "x", "/", ":">>,
      <<"/", ":", "/", ":", "x", ":", "y">>,
      <<"/", ":", "x", "/", ":", "y", ":", "y">>,
      <<"/", ":", "x", "*", "y">>,
      <<"/", "a", "*", "y">> }

\* the bytes of a request path
PathBytes == {"/", "a", "b"}

\* longest request path, in bytes
MaxPathLen == 5

\* request paths: the empty path and every path of at most MaxPathLen bytes
\* that starts with a slash
RequestPaths ==
    {<<>>} \cup UNION {{<<"/">> \o s : s \in [1..k -> PathBytes]} : k \in 0..(MaxPathLen - 1)}

\* the request path with its trailing slash toggled
ToggleTrailingSlash(path) ==
    IF Len(path) > 0 /\ path[Len(path)] = "/"
    THEN SubSeq(path, 1, Len(path) - 1)
    ELSE Append(path, "/")

\* the route patterns of the case-insensitive lookups: static ones in both
\* cases, parameters, and catch-alls after a static prefix and after a
\* parameter
CIPatterns ==
    { <<"/">>,
      <<"/", "a">>,
      <<"/", "A">>,
      <<"/", "a", "b">>,
      <<"/", "A", "b">>,
      <<"/", "A", "B", "/">>,
      <<"/", "a", "/">>,
      <<"/", "a", "/", "b">>,
      <<"/", ":", "x">>,
      <<"/", ":", "X">>,
      <<"/", ":", "x", "/">>,
      <<"/", ":", "x", "/", "a">>,
      <<"/", ":", "x", "/", ":", "y">>,
      <<"/", ":", "x", "/", "*", "y">>,
      <<"/", "a", "/", ":", "x">>,
      <<"/", "a", "/", "*", "y">>,
      <<"/", "a", "/", ":", "x", "/", "*", "y">>,
      <<"/", "*", "y">> }

\* strings.ToLower and strings.ToUpper
LowerCase(s) == [k \in 1..Len(s) |-> ToLower(s[k])]

UpperCase(s) == [k \in 1..Len(s) |-> ToUpper(s[k])]

\* longest of the short paths looked up besides the patterns, in bytes
MaxShortPathLen == 3

\* the paths looked up: every pattern as written, in lower case and in upper
\* case, each also with its trailing slash toggled; the empty path and every
\* request path of at most MaxShortPathLen bytes; and every pattern with a
\* letter in the place of its first slash
CIPaths ==
    LET cased == UNION {{p, LowerCase(p), UpperCase(p)} : p \in CIPatterns}
    IN cased \cup {ToggleTrailingSlash(p) : p \in cased}
             \cup {p \in RequestPaths : Len(p) <= MaxShortPathLen}
             \cup {<<"a">> \o Tail(p) : p \in CIPatterns}

\* most repetitions of a segment in a path handed to countRequestPathParams
MaxRepeat == 257

\* strings.Repeat(seg, k)
Repeat(seg, k) == [i \in 1..(k * Len(seg)) |-> seg[((i - 1) % Len(seg)) + 1]]

\* the segments repeated: a parameter, a catch-all, a static byte, and two
\* markers in a row
CountSegments == {<<"/", ":", "x">>, <<"/", "*", "y">>, <<"a">>, <<":", "*">>}

\* the paths counted: every segment repeated up to MaxRepeat times, alone and
\* after the path of the test
CountPaths ==
    LET mixed == <<"/", "a", "/", ":", "x", "/", "b", "/", "*", "y">>
    IN UNION {{Repeat(seg, k), mixed \o Repeat(seg, k)} :
                seg \in CountSegments, k \in 0..MaxRepeat}

\* most AddRoute calls with static patterns
MaxStaticCalls == 4

\* static route patterns below one prefix
StaticPatterns ==
    { <<"/", "a">>,
      <<"/", "b">>,
      <<"/", "c">>,
      <<"/", "a", "b">>,
      <<"/", "a", "c">>,
      <<"/", "b", "c">>,
      <<"/", "c", "a">>,
      <<"/", "c", "/">>,
      <<"/", "a", "b", "c">> }

\* largest capacity of a PathParameters object filled by AddParameter calls
MaxParameters == 3

\* the keys and values handed to AddParameter
ParameterKeys == {<<"x">>, <<"y">>}

ParameterValues == {<<"a">>, <<"b">>}

-----------------------------------------------------------------------------
(* State machine *)

NoResult == [handler |-> NilHandler, ps |-> NilPathParameters, tsr |-> FALSE, panic |-> "none"]

Idle == [name |-> "idle", path |-> <<>>, handler |-> NilHandler, err |-> NoPanic,
         registered |-> FALSE, fixTrailingSlash |-> FALSE, added |-> <<>>]

Init ==
    /\ nodes = <<ZeroNode>>
    /\ routes = {}
    /\ calls = 0
    /\ failures = 0
    /\ op = Idle
    /\ res = NoResult

Registered(path) == \E r \in routes : r.path = path

\* tree.AddRoute(path, handler); a panic is recovered by the caller
AddRouteWithin(path, maxCalls) ==
    /\ op.name \in {"idle", "AddRoute"}
    /\ calls < maxCalls
    /\ LET handler == calls + 1    \* every call brings a handler of its own
           r == AddRouteOn(nodes, path, handler)
       IN /\ nodes' = r.nodes
          /\ routes' = IF r.err = NoPanic
                       THEN routes \cup {[path |-> path, handler |-> handler]}
                       ELSE routes
          /\ failures' = IF r.err # NoPanic THEN failures + 1 ELSE failures
          /\ op' = [name |-> "AddRoute", path |-> path, handler |-> handler,
                    err |-> r.err, registered |-> Registered(path),
                    fixTrailingSlash |-> FALSE, added |-> <<>>]
    /\ calls' = calls + 1
    /\ res' = NoResult

\* tree.AddRoute(path, handler), up to MaxCalls calls
AddRoute(path) == AddRouteWithin(path, MaxCalls)

\* tree.Resolve(path)
ResolvePath(path) ==
    /\ op.name \in {"idle", "AddRoute"}
    /\ res' = Resolve(nodes, path)
    /\ op' = [Idle EXCEPT !.name = "Resolve", !.path = path]
    /\ UNCHANGED <<nodes, routes, calls, failures>>

\* a lookup that counts its calls in the priority of the root, as AddRoute
\* counts the routes
FindCaseInsensitivePathCounting(path, fixTrailingSlash) ==
    /\ op.name \in {"idle", "AddRoute"}
    /\ res' = findCaseInsensitivePath(nodes, path, fixTrailingSlash)
    /\ op' = [Idle EXCEPT !.name = "findCaseInsensitivePath", !.path = path,
                          !.fixTrailingSlash = fixTrailingSlash]
    /\ nodes' = [nodes EXCEPT ![Root].priority = @ + 1]
    /\ UNCHANGED <<routes, calls, failures>>

\* tree.findCaseInsensitivePath(path, fixTrailingSlash)
FindCaseInsensitivePath(path, fixTrailingSlash) ==
    /\ op.name \in {"idle", "AddRoute"}
    /\ res' = findCaseInsensitivePath(nodes, path, fixTrailingSlash)
    /\ op' = [Idle EXCEPT !.name = "findCaseInsensitivePath", !.path = path,
                          !.fixTrailingSlash = fixTrailingSlash]
    /\ UNCHANGED <<nodes, routes, calls, failures>>

\* countRequestPathParams(path)
CountRequestPathParams(path) ==
    /\ op.name = "idle"
    /\ res' = [count |-> countRequestPathParams(path)]
    /\ op' = [Idle EXCEPT !.name = "countRequestPathParams", !.path = path]
    /\ UNCHANGED <<nodes, routes, calls, failures>>

\* ps := NewPathParameters(route, parameterCount): the caller holds ps in res
NewParameters(route, parameterCount) ==
    /\ op.name = "idle"
    /\ res' = NewPathParameters(route, parameterCount)
    /\ op' = [Idle EXCEPT !.name = "NewPathParameters", !.path = route]
    /\ UNCHANGED <<nodes, routes, calls, failures>>

\* ps.AddParameter(key, value) on the object held; op.added is the list of
\* the pairs that the calls without panic have passed so far
AddParam(key, value) ==
    /\ op.name \in {"NewPathParameters", "AddParameter"}
    /\ op.err = NoPanic
    /\ LET r == AddParameter(res, key, value)
       IN /\ res' = r.p
          /\ op' = [op EXCEPT !.name = "AddParameter", !.err = r.err,
                              !.added = IF r.err = NoPanic
                                        THEN Append(@, [Key |-> key, Value |-> value])
                                        ELSE @]
    /\ UNCHANGED <<nodes, routes, calls, failures>>

\* the caller drops the object
DropParameters ==
    /\ op.name \in {"NewPathParameters", "AddParameter"}
    /\ op' = Idle
    /\ res' = NoResult
    /\ UNCHANGED <<nodes, routes, calls, failures>>

\* the caller has consumed the result of a call that returns one
Return ==
    /\ op.name \in {"Resolve", "findCaseInsensitivePath", "countRequestPathParams"}
    /\ op' = Idle
    /\ res' = NoResult
    /\ UNCHANGED <<nodes, routes, calls, failures>>

Next ==
    \/ \E path \in Patterns : AddRoute(path)
    \/ \E path \in RequestPaths : ResolvePath(path)
    \/ Return

Spec == Init /\ [][Next]_vars

\* the tree under AddRoute, findCaseInsensitivePath and Resolve, with patterns
\* in both cases
NextCI ==
    \/ \E path \in CIPatterns : AddRoute(path)
    \/ \E path \in CIPaths : \E fixTrailingSlash \in BOOLEAN :
          FindCaseInsensitivePath(path, fixTrailingSlash)
    \/ \E path \in CIPaths : ResolvePath(path)
    \/ Return

SpecCI == Init /\ [][NextCI]_vars

\* countRequestPathParams on paths of repeated segments
NextCount ==
    \/ \E path \in CountPaths : CountRequestPathParams(path)
    \/ Return

SpecCount == Init /\ [][NextCount]_vars

\* the tree under AddRoute with static patterns that share their prefixes, so
\* that nodes get several children
NextStatic == \E path \in StaticPatterns : AddRouteWithin(path, MaxStaticCalls)

SpecStatic == Init /\ [][NextStatic]_vars

\* a PathParameters object under NewPathParameters and AddParameter
NextParameters ==
    \/ \E parameterCount \in 0..MaxParameters :
          NewParameters(<<"/", ":", "x">>, parameterCount)
    \/ \E key \in ParameterKeys : \E value \in ParameterValues : AddParam(key, value)
    \/ DropParameters

SpecParameters == Init /\ [][NextParameters]_vars

-----------------------------------------------------------------------------
(* What it means for a request path to concretize a pattern *)

\* index (1-based) of the first "/" of s at or after position j, Len(s) + 1 if none
RECURSIVE segmentEnd(_, _)
segmentEnd(s, j) ==
    IF j <= Len(s) /\ s[j] # "/" THEN segmentEnd(s, j + 1) ELSE j

\* pattern[i..] is concretized by path[j..]: a `:name` stands for a non-empty
\* slash-free segment, a final `*name` for the rest of the path (a `*name`
\* that is not final stands for any bytes, and the pattern goes on after them)
RECURSIVE concretizesFrom(_, _, _, _)
concretizesFrom(pattern, i, path, j) ==
    IF i > Len(pattern) THEN j > Len(path)
    ELSE IF pattern[i] = "*"
    THEN \/ segmentEnd(pattern, i) > Len(pattern)
         \/ \E k \in j..(Len(path) + 1) :
                concretizesFrom(pattern, segmentEnd(pattern, i), path, k)
    ELSE IF pattern[i] = ":"
    THEN /\ segmentEnd(path, j) > j
         /\ concretizesFrom(pattern, segmentEnd(pattern, i), path, segmentEnd(path, j))
    ELSE /\ j <= Len(path)
         /\ path[j] = pattern[i]
         /\ concretizesFrom(pattern, i + 1, path, j + 1)

Concretizes(pattern, path) == concretizesFrom(pattern, 1, path, 1)

\* the nodes of the tree (every allocated node hangs below the root)
NodeIds == 1..Len(nodes)

RECURSIVE handlersBelow(_, _)
handlersBelow(h, n) ==
    LET ch == h[n].children
        sum[k \in 0..Len(ch)] == IF k = 0 THEN 0 ELSE sum[k - 1] + handlersBelow(h, ch[k])
    IN sum[Len(ch)] + (IF h[n].handler # NilHandler THEN 1 ELSE 0)

-----------------------------------------------------------------------------
(* Properties *)

\* the tree was built by successful AddRoute calls only
BuiltBySuccessfulCalls == failures = 0

\* a Resolve call has just returned on a tree built by successful calls
Resolved == op.name = "Resolve" /\ BuiltBySuccessfulCalls

\* the handler that the successful AddRoute call for pattern brought
HandlerOf(pattern) == (CHOOSE r \in routes : r.path = pattern).handler

\* C1: after successful AddRoute calls, Resolve of any request path that
\* concretizes a registered pattern P returns the non-nil handler that was
\* passed to AddRoute together with P.
C1_ResolveReturnsRegisteredHandler ==
    Resolved =>
        \A r \in routes :
            Concretizes(r.path, op.path) =>
                res.handler # NilHandler /\ res.handler = r.handler

\* C2: Resolve of a request path that concretizes a registered pattern P
\* returns parameters whose route field is P, whatever else was registered
\* and in whatever order.
C2_RouteFieldEqualsPattern ==
    Resolved =>
        \A r \in routes :
            (Concretizes(r.path, op.path) /\ ~res.ps.nil) => res.ps.route = r.path

\* an AddRoute step whose pattern is already registered
DuplicateCall ==
    /\ calls' = calls + 1
    /\ op'.name = "AddRoute"
    /\ op'.registered

\* C3: AddRoute of a pattern that is already registered fails with the
\* duplicate-route error, and every request path that resolved to the handler
\* of the first call still resolves to that handler afterwards.
C3_DuplicateKeepsFirstHandler ==
    [][DuplicateCall =>
          /\ op'.err = PanicPatternHandlerAlreadyExists
          /\ \A q \in RequestPaths :
                Resolve(nodes, q).handler = HandlerOf(op'.path) =>
                    Resolve(nodes', q).handler = HandlerOf(op'.path)]_vars

\* a duplicate call has failed on a pattern with a wildcard whose first
\* handler is what a concretizing request path resolves to
C3_Witness ==
    /\ op.name = "AddRoute"
    /\ op.registered
    /\ op.err = PanicPatternHandlerAlreadyExists
    /\ countRequestPathParams(op.path) > 0
    /\ op.handler # HandlerOf(op.path)
    /\ \E q \in RequestPaths :
          Concretizes(op.path, q) /\ Resolve(nodes, q).handler = HandlerOf(op.path)

\* C4: whenever Resolve(path) returns tsr = true, the path with its trailing
\* slash toggled resolves to a non-nil handler on the same tree.
C4_TsrMeansToggledPathResolves ==
    (Resolved /\ res.tsr) =>
        Resolve(nodes, ToggleTrailingSlash(op.path)).handler # NilHandler

\* C5: a request path that matches no registered pattern, and that differs
\* by one added or removed trailing slash from a path matching a registered
\* pattern, makes Resolve return a nil handler and tsr = true.
C5_NearMissGetsTsr ==
    (/\ Resolved
     /\ \A r \in routes : ~Concretizes(r.path, op.path)
     /\ \E r \in routes : Concretizes(r.path, ToggleTrailingSlash(op.path)))
    => (res.handler = NilHandler /\ res.tsr)

\* C6: on a tree built by successful AddRoute calls Resolve returns for every
\* request path without a panic: no index or slice out of range (the
\* parameters bound stay within the capacity taken from maxParameters), no
\* invalid node type.
C6_ResolveNeverPanics ==
    Resolved => res.panic = NoPanic

\* Resolve has bound as many parameters as the capacity allows, two of them
C6_Witness ==
    /\ Resolved
    /\ res.panic = NoPanic
    /\ ~res.ps.nil
    /\ res.ps.cap = 2
    /\ Len(res.ps.parameters) = res.ps.cap

\* C7: every node has as many entries in indices as it has children, and
\* indices[i] is the first byte of children[i].path.
C7_IndicesMirrorChildren ==
    BuiltBySuccessfulCalls =>
        \A n \in NodeIds :
            /\ Len(nodes[n].indices) = Len(nodes[n].children)
            /\ \A i \in 1..Len(nodes[n].children) :
                  /\ Len(nodes[nodes[n].children[i]].path) > 0
                  /\ nodes[n].indices[i] = nodes[nodes[n].children[i]].path[1]

\* C8: the children of every node are ordered by priority, highest first.
C8_ChildrenSortedByPriority ==
    BuiltBySuccessfulCalls =>
        \A n \in NodeIds :
            \A i \in 1..(Len(nodes[n].children) - 1) :
                nodes[nodes[n].children[i]].priority
                    >= nodes[nodes[n].children[i + 1]].priority

\* a child created later stands before an older sibling of lower priority
C8_Witness ==
    /\ BuiltBySuccessfulCalls
    /\ \E n \in NodeIds :
          \E i \in 1..(Len(nodes[n].children) - 1) :
              /\ nodes[n].children[i] > nodes[n].children[i + 1]
              /\ nodes[nodes[n].children[i]].priority
                    > nodes[nodes[n].children[i + 1]].priority
              /\ nodes[n].indices[i] = nodes[nodes[n].children[i]].path[1]

\* C9: the priority of every node is the number of nodes holding a handler in
\* the subtree rooted at it, the node included.
C9_PriorityCountsRoutes ==
    BuiltBySuccessfulCalls =>
        \A n \in NodeIds : nodes[n].priority = handlersBelow(nodes, n)

\* a node made by a split sits above two routes and holds no handler itself
C9_Witness ==
    /\ BuiltBySuccessfulCalls
    /\ \E n \in NodeIds :
          /\ nodes[n].handler = NilHandler
          /\ Len(nodes[n].children) = 2
          /\ nodes[n].priority >= 2
          /\ \E m \in NodeIds \ {n} :
                nodes[m].children # <<>> /\ nodes[m].priority = nodes[n].priority + 1

WildChildShape(h) ==
    \A n \in 1..Len(h) :
        h[n].wildChild =>
            /\ Len(h[n].children) = 1
            /\ h[h[n].children[1]].nodeType \in {"param", "catchAll"}

\* C10: a node whose wildChild flag is true has exactly one child, of kind
\* param or catch-all, and no later AddRoute, failing or not, gives that child
\* a sibling: after the call it is still the only child of a node with the
\* flag (the same node, or the node that a split put in its place).
C10_WildChildIsOnlyChild ==
    /\ [](BuiltBySuccessfulCalls => WildChildShape(nodes))
    /\ [][BuiltBySuccessfulCalls =>
             \A n \in NodeIds :
                 nodes[n].wildChild =>
                     \E m \in 1..Len(nodes') :
                         /\ nodes'[m].wildChild
                         /\ nodes'[m].children = nodes[n].children]_vars

\* a later AddRoute has gone through a node with a wild child, and another
\* such node has been split
C10_Witness ==
    /\ BuiltBySuccessfulCalls
    /\ \E n \in NodeIds : nodes[n].wildChild /\ nodes[n].priority >= 2
    /\ \E n \in NodeIds :
          /\ ~nodes[n].wildChild
          /\ Len(nodes[n].children) = 1
          /\ nodes[nodes[n].children[1]].wildChild
          /\ nodes[nodes[n].children[1]].nodeType = "static"
          /\ nodes[nodes[n].children[1]].path # <<>>

\* the largest number of wildcard nodes (nodes that are not static and have no
\* wild child: param nodes and catch-all leaves) on a downward path from n
RECURSIVE wildcardsBelow(_, _)
wildcardsBelow(h, n) ==
    LET ch == h[n].children
        best[k \in 0..Len(ch)] ==
            IF k = 0 THEN 0
            ELSE IF wildcardsBelow(h, ch[k]) > best[k - 1]
                 THEN wildcardsBelow(h, ch[k]) ELSE best[k - 1]
    IN best[Len(ch)] + (IF h[n].nodeType # "static" /\ ~h[n].wildChild THEN 1 ELSE 0)

\* C11: maxParameters of every node is the largest number of wildcard nodes
\* on any downward path that starts at the node, the node included.
C11_MaxParametersCountsWildcards ==
    BuiltBySuccessfulCalls =>
        \A n \in NodeIds : nodes[n].maxParameters = wildcardsBelow(nodes, n)

\* an AddRoute call has just returned (normally or by a panic)
Added == op.name = "AddRoute"

\* the pattern has a catch-all segment that is followed by more path bytes
CatchAllNotFinal(pattern) ==
    \E i \in 1..Len(pattern) :
        pattern[i] = "*" /\ segmentEnd(pattern, i) <= Len(pattern)

\* C12: AddRoute fails for every pattern in which a catch-all segment is
\* followed by more path bytes, whatever the tree already contains.
C12_CatchAllMustBeFinal ==
    (Added /\ CatchAllNotFinal(op.path)) => op.err # NoPanic

\* the segment of pattern that starts at position i (1-based), up to the next
\* slash or the end of the pattern
SegmentAt(pattern, i) == SubSeq(pattern, i, segmentEnd(pattern, i) - 1)

\* pattern q shares with the registered pattern r everything before a wildcard
\* of r at position i, goes on there, and its segment there is not exactly
\* that wildcard
MeetsOtherWildcard(r, q, i) ==
    /\ i <= Len(r)
    /\ r[i] \in {":", "*"}
    /\ Len(q) >= i
    /\ SubSeq(q, 1, i - 1) = SubSeq(r, 1, i - 1)
    /\ SegmentAt(q, i) # SegmentAt(r, i)

\* the walk of AddRoute(q) comes to a wild child that q's next segment is not
WildcardConflict(q) ==
    \E r \in routes : \E i \in 1..Len(r.path) : MeetsOtherWildcard(r.path, q, i)

\* an AddRoute step on a tree built by successful calls
AddRouteStep == BuiltBySuccessfulCalls /\ calls' = calls + 1

\* C13: where the walk meets a wild child, AddRoute goes on only if the next
\* segment of the pattern is exactly that wildcard; a static segment, another
\* name, or a name that is a prefix or an extension of the existing one fails
\* with the wildcard-conflict error.
C13_WildChildMustMatchExactly ==
    [][AddRouteStep =>
          (WildcardConflict(op'.path) => op'.err = PanicPatternPathWildcardConflict)]_vars

\* a call has failed on a name that extends the name of the registered wildcard
C13_Witness ==
    /\ Added
    /\ failures = 1
    /\ op.err = PanicPatternPathWildcardConflict
    /\ \E r \in routes :
          /\ Len(op.path) > Len(r.path)
          /\ SubSeq(op.path, 1, Len(r.path)) = r.path
          /\ op.path[Len(r.path) + 1] # "/"
          /\ countRequestPathParams(r.path) = 1

\* pattern q shares with the registered pattern r everything before position
\* i, where r goes on with a static byte and q with a wildcard
WildcardMeetsStatic(r, q, i) ==
    /\ i <= Len(r)
    /\ i <= Len(q)
    /\ SubSeq(q, 1, i - 1) = SubSeq(r, 1, i - 1)
    /\ q[i] \in {":", "*"}
    /\ r[i] \notin {":", "*"}

\* the walk of AddRoute(q) gets past the wild children on its way and comes to
\* a node with a static child where q's next byte is a wildcard marker
ChildConflict(q) ==
    /\ ~WildcardConflict(q)
    /\ \E r \in routes : \E i \in 1..Len(r.path) : WildcardMeetsStatic(r.path, q, i)

\* C14: where the walk ends at a node that already has a static child,
\* AddRoute of a pattern that goes on with `:` or `*` fails with the
\* wildcard-versus-existing-child error; and no two registered patterns are a
\* static and a wildcard alternative at the same position.
C14_WildcardNeverBesideStatic ==
    /\ [][AddRouteStep =>
             (ChildConflict(op'.path) =>
                 op'.err = PanicPatternWildcardSegmentConflictWithExistingChild)]_vars
    /\ [](BuiltBySuccessfulCalls =>
             \A r, q \in routes : \A i \in 1..Len(r.path) :
                 ~WildcardMeetsStatic(r.path, q.path, i))

\* a second wildcard of the pattern has met a static child below a parameter
C14_Witness ==
    /\ Added
    /\ failures = 1
    /\ op.err = PanicPatternWildcardSegmentConflictWithExistingChild
    /\ countRequestPathParams(op.path) = 2
    /\ ChildConflict(op.path)
    /\ \E r \in routes : \E i \in 3..Len(r.path) :
          WildcardMeetsStatic(r.path, op.path, i)

\* r is a pattern `Q/` and q is the catch-all pattern `Q/*name`
SlashAndCatchAll(r, q) ==
    /\ Len(r) > 0
    /\ r[Len(r)] = "/"
    /\ Len(q) > Len(r) + 1
    /\ SubSeq(q, 1, Len(r)) = r
    /\ q[Len(r) + 1] = "*"
    /\ segmentEnd(q, Len(r) + 1) > Len(q)

\* C15: a pattern `Q/` and a catch-all pattern `Q/*name` are never both
\* registered in one tree: whichever of the two comes second fails.
C15_SlashExcludesCatchAll ==
    [][AddRouteStep =>
          ((\E r \in routes : \/ SlashAndCatchAll(r.path, op'.path)
                               \/ SlashAndCatchAll(op'.path, r.path))
              => op'.err # NoPanic)]_vars

\* the pattern ending in the slash came second, below a parameter, and
\* stopped inside the catch-all
C15_Witness ==
    /\ Added
    /\ failures = 1
    /\ countRequestPathParams(op.path) = 1
    /\ \E r \in routes : SlashAndCatchAll(op.path, r.path)
    /\ op.err = PanicPatternPathWildcardConflict

\* the pattern has a `:` or `*` immediately followed by a slash or by the end
EmptyWildcardName(pattern) ==
    \E i \in 1..Len(pattern) :
        /\ pattern[i] \in {":", "*"}
        /\ (i = Len(pattern) \/ pattern[i + 1] = "/")

\* C16: AddRoute fails for every pattern that has a wildcard with an empty
\* name, on an empty tree and on any non-empty tree.
C16_EmptyWildcardNameFails ==
    (Added /\ EmptyWildcardName(op.path)) => op.err # NoPanic

\* the empty name was found by insertChild below a registered parameter
C16_Witness ==
    /\ Added
    /\ failures = 1
    /\ EmptyWildcardName(op.path)
    /\ op.err = PanicEmptyWildcardName
    /\ \E r \in routes :
          /\ countRequestPathParams(r.path) = 1
          /\ Len(op.path) > Len(r.path)
          /\ SubSeq(op.path, 1, Len(r.path)) = r.path

\* position i holds a wildcard marker and another marker follows it before the
\* next slash
DoubledAt(pattern, i) ==
    /\ pattern[i] \in {":", "*"}
    /\ \E j \in (i + 1)..(segmentEnd(pattern, i) - 1) : pattern[j] \in {":", "*"}

\* the pattern has two wildcard markers between two consecutive slashes
DoubleWildcard(pattern) == \E i \in 1..Len(pattern) : DoubledAt(pattern, i)

\* position k starts a well-formed `:name` segment
NamedParamAt(pattern, k) ==
    /\ pattern[k] = ":"
    /\ segmentEnd(pattern, k) - k >= 2
    /\ ~DoubledAt(pattern, k)

\* the first wildcard segment of the pattern that is not a well-formed `:name`
\* is one with two markers
DoubleWildcardComesFirst(pattern) ==
    \E i \in 1..Len(pattern) :
        /\ DoubledAt(pattern, i)
        /\ \A k \in 1..(i - 1) : pattern[k] \in {":", "*"} => NamedParamAt(pattern, k)

\* C17 as stated: AddRoute fails for every pattern that has two wildcard
\* markers between two consecutive slashes, and on an empty tree the failure
\* is the multiple-wildcards error.
C17_DoubleWildcardFails ==
    (Added /\ DoubleWildcard(op.path)) =>
        /\ op.err # NoPanic
        /\ (calls = 1 => op.err = PanicPatternMultipleWildcardsInOnePathSegment)

\* C17 amended: AddRoute fails for every such pattern, and on an empty tree
\* the failure is the multiple-wildcards error when every wildcard segment
\* before the doubled one is a well-formed `:name`.
C17_DoubleWildcardFailsFirstDefect ==
    (Added /\ DoubleWildcard(op.path)) =>
        /\ op.err # NoPanic
        /\ (calls = 1 /\ DoubleWildcardComesFirst(op.path)
                => op.err = PanicPatternMultipleWildcardsInOnePathSegment)

\* on an empty tree the doubled segment was found after a well-formed parameter
C17_Witness ==
    /\ Added
    /\ calls = 1
    /\ DoubleWildcardComesFirst(op.path)
    /\ \E k \in 1..Len(op.path) : NamedParamAt(op.path, k)
    /\ op.err = PanicPatternMultipleWildcardsInOnePathSegment

\* the parameters that pattern[i..] binds in path[j..], from left to right: a
\* `:name` takes the bytes up to the next slash, a `/*name` the whole rest of
\* the path from its slash on
RECURSIVE boundFrom(_, _, _, _)
boundFrom(pattern, i, path, j) ==
    IF i > Len(pattern) THEN <<>>
    ELSE IF pattern[i] = ":"
    THEN <<[Key |-> SubSeq(pattern, i + 1, segmentEnd(pattern, i) - 1),
            Value |-> SubSeq(path, j, segmentEnd(path, j) - 1)]>>
         \o boundFrom(pattern, segmentEnd(pattern, i), path, segmentEnd(path, j))
    ELSE IF pattern[i] = "/" /\ i < Len(pattern) /\ pattern[i + 1] = "*"
    THEN <<[Key |-> SubSeq(pattern, i + 2, segmentEnd(pattern, i + 1) - 1),
            Value |-> SubSeq(path, j, Len(path))]>>
    ELSE boundFrom(pattern, i + 1, path, j + 1)

BoundParameters(pattern, path) == boundFrom(pattern, 1, path, 1)

\* C18: when Resolve matches a pattern, the parameter list has one entry per
\* wildcard of the pattern, in the pattern's order, keyed by the wildcard's
\* name; a `:name` holds the request bytes between the slashes around it and a
\* `*name` the rest of the request path from the slash before the catch-all.
C18_ParametersFollowPattern ==
    (Resolved /\ res.handler # NilHandler) =>
        \A r \in routes :
            r.handler = res.handler =>
                res.ps.parameters = BoundParameters(r.path, op.path)

\* a parameter and a catch-all were bound, the catch-all to more than its slash
C18_Witness ==
    /\ Resolved
    /\ res.handler # NilHandler
    /\ Len(res.ps.parameters) = 2
    /\ res.ps.parameters[1].Key # res.ps.parameters[2].Key
    /\ Len(res.ps.parameters[2].Value) > 1
    /\ res.ps.parameters[2].Value[1] = "/"

\* a findCaseInsensitivePath call has just returned on a tree built by
\* successful calls
Found == op.name = "findCaseInsensitivePath" /\ BuiltBySuccessfulCalls

\* the call has returned (path, true)
FoundAs(path) == res.panic = NoPanic /\ res.found /\ res.fixedPath = path

\* C19: looking up the lower-cased form of a registered pattern, with either
\* value of fixTrailingSlash, returns the pattern as registered and true.
C19_LowercaseFindsPattern ==
    Found =>
      \A r \in routes : op.path = LowerCase(r.path) => FoundAs(r.path)

\* C20: looking up a registered pattern itself, with fixTrailingSlash true or
\* false, returns the pattern and true; a catch-all after a named parameter
\* included.
C20_PatternFindsItself ==
    Found /\ Registered(op.path) => FoundAs(op.path)

\* C21: whenever findCaseInsensitivePath returns found = true, Resolve of the
\* returned path on the same tree returns a handler; so a path with a trailing
\* slash added or removed is returned only if it hits a handler.
C21_FoundPathResolves ==
    Found /\ res.found => Resolve(nodes, res.fixedPath).handler # NilHandler

\* C22: with fixTrailingSlash = false, a path that begins with a slash and is
\* found comes back with its length unchanged and equal to the input under
\* case folding: no trailing slash is added or removed, and an input that
\* matches only with its trailing slash toggled is not found.
C22_NoFixKeepsTrailingSlash ==
    Found /\ ~op.fixTrailingSlash /\ res.found /\ Len(op.path) > 0 /\ op.path[1] = "/"
      => Len(res.fixedPath) = Len(op.path) /\ EqualFold(res.fixedPath, op.path)

\* a lookup without the fix has found a path that ends in a slash and has
\* corrected its case
C22_Witness ==
    /\ Found /\ ~op.fixTrailingSlash /\ Len(op.path) > 1 /\ op.path[1] = "/"
    /\ op.path[Len(op.path)] = "/"
    /\ res.found /\ res.fixedPath # op.path

\* C23: findCaseInsensitivePath never panics, whatever the path (the empty
\* path and "/" included) and the value of fixTrailingSlash.
C23_FindNeverPanics ==
    Found => res.panic = NoPanic

\* a Resolve or findCaseInsensitivePath call has just returned
LookedUp == op.name \in {"Resolve", "findCaseInsensitivePath"}

RECURSIVE markersIn(_, _, _)
markersIn(path, lo, hi) ==
    IF lo > hi THEN 0
    ELSE IF lo = hi THEN (IF path[lo] = ":" \/ path[lo] = "*" THEN 1 ELSE 0)
    ELSE LET mid == (lo + hi) \div 2
         IN markersIn(path, lo, mid) + markersIn(path, mid + 1, hi)

\* C25: countRequestPathParams returns the number of `:` and `*` bytes of the
\* path when that number is below 255, and 255 for every path with 255 or
\* more of them.
C25_CountSaturatesAt255 ==
    op.name = "countRequestPathParams" =>
      LET n == markersIn(op.path, 1, Len(op.path))
      IN res.count = IF n < 255 THEN n ELSE 255

\* a path with more than 255 markers has been counted as 255
C25_Witness ==
    /\ op.name = "countRequestPathParams"
    /\ markersIn(op.path, 1, Len(op.path)) > 255
    /\ res.count = 255

\* a PathParameters object filled by AddParameter calls within its capacity
Filled == op.name = "AddParameter" /\ op.err = NoPanic

\* the position of the last pair of added that has the key
LastWith(added, key) ==
    CHOOSE i \in 1..Len(added) :
      added[i].Key = key /\ \A j \in (i + 1)..Len(added) : added[j].Key # key

\* C26: after any sequence of AddParameter calls within capacity,
\* GetParameters returns every added pair in the order added, duplicates
\* kept, and ParameterMap maps each key to the value of the last pair added
\* with that key.
C26_ParametersKeepAllMapKeepsLast ==
    Filled =>
      /\ GetParameters(res) = op.added
      /\ DOMAIN ParameterMap(res) = {op.added[i].Key : i \in 1..Len(op.added)}
      /\ \A key \in DOMAIN ParameterMap(res) :
           ParameterMap(res)[key] = op.added[LastWith(op.added, key)].Value

\* three pairs have been added, the first and the last with one key and
\* different values
C26_Witness ==
    /\ Filled /\ Len(op.added) = 3
    /\ op.added[1].Key = op.added[3].Key
    /\ op.added[1].Value # op.added[3].Value
    /\ op.added[2].Key # op.added[1].Key

\* C27: in every tree built by successful AddRoute calls, a node that holds a
\* handler has the full pattern registered with that handler as its
\* routePath, and a node without a handler has an empty routePath.
C27_RoutePathIsRegisteredPattern ==
    BuiltBySuccessfulCalls =>
      \A n \in NodeIds :
        IF nodes[n].handler # NilHandler
        THEN \E r \in routes : r.handler = nodes[n].handler /\ nodes[n].routePath = r.path
        ELSE nodes[n].routePath = <<>>

\* C28: in every tree built by successful AddRoute calls the bytes of a
\* node's indices are pairwise distinct, and each is the first byte of the
\* path of the child at its position or, for a node that insertChild left
\* with an empty path in front of a catch-all, the slash the catch-all starts
\* with: no two children are reached through the same first byte.
C28_IndicesAreDistinct ==
    BuiltBySuccessfulCalls =>
      \A n \in NodeIds :
        LET indices == nodes[n].indices
            children == nodes[n].children
        IN /\ \A i, j \in 1..Len(indices) : i # j => indices[i] # indices[j]
           /\ Len(indices) > 0 => Len(indices) = Len(children)
           /\ \A i \in 1..Len(indices) :
                LET c == nodes[children[i]]
                IN IF Len(c.path) > 0
                   THEN indices[i] = c.path[1]
                   ELSE indices[i] = "/"

\* three routes have been added below one node, which has two children
\* under two different first bytes
C28_Witness ==
    /\ BuiltBySuccessfulCalls /\ Cardinality(routes) = 3
    /\ \E n \in NodeIds :
         /\ Len(nodes[n].indices) = 2
         /\ nodes[n].indices[1] # nodes[n].indices[2]
         /\ nodes[n].priority = 3

\* the patterns that have exactly the first pos bytes in common with the path
\* of a node: the prefix alone, and the prefix with another next byte
SplittingAt(nodePath, pos) ==
    {Slice(nodePath, 0, pos)} \cup
    {Append(Slice(nodePath, 0, pos), c) : c \in PathBytes \ {At(nodePath, pos)}}

\* the split of node n of tree h at pos by path has the shape of claim C29
SplitShape(h, n, pos, path) ==
    LET old == h[n]
        h1 == splitNode(h, n, pos, path)
        new == h1[n]
    IN /\ new.path = Slice(old.path, 0, pos)
       /\ new.handler = NilHandler
       /\ ~new.wildChild
       /\ Len(new.children) = 1
       /\ new.indices = <<At(old.path, pos)>>
       /\ LET child == h1[new.children[1]]
          IN /\ child.path = SliceFrom(old.path, pos)
             /\ child.children = old.children
             /\ child.indices = old.indices
             /\ child.wildChild = old.wildChild
             /\ child.handler = old.handler
             /\ child.priority = new.priority - 1
       /\ \A m \in 1..Len(h) : m # n => h1[m] = h[m]

\* C29: when AddRoute splits a node at a common-prefix length p below the
\* length of its path, then right after the split the node has the first p
\* bytes of its old path, no handler, no wildChild flag, one child and the
\* byte at p of the old path as its indices; the child has the rest of the old
\* path, the old children, indices, wildChild flag and handler, and the
\* node's priority minus one.
C29_SplitKeepsSubtreeInChild ==
    BuiltBySuccessfulCalls =>
      \A n \in NodeIds : \A pos \in 1..(Len(nodes[n].path) - 1) :
        \A path \in SplittingAt(nodes[n].path, pos) : SplitShape(nodes, n, pos, path)

\* AddRoute has split a node that held a handler and a child and has added a
\* second child to it: the node holds no handler, and its other child holds
\* the old handler and the old child
C29_Witness ==
    /\ BuiltBySuccessfulCalls /\ Added /\ op.err = NoPanic
    /\ \E n \in NodeIds :
         /\ nodes[n].handler = NilHandler /\ Len(nodes[n].children) = 2
         /\ \E k \in 1..2 :
              LET c == nodes[nodes[n].children[k]]
              IN c.handler # NilHandler /\ c.handler # op.handler /\ Len(c.children) = 1

\* incrementChildNodePriorityAndSwapIfNeeded(i) on node n of tree h does what
\* claim C30 says
IncrementShape(h, n, i) ==
    LET old == h[n]
        c == old.children[i + 1]
        r == incrementChildNodePriorityAndSwapIfNeeded(h, n, i)
        new == r.nodes[n]
        priority == h[c].priority + 1
        lower(k) == h[old.children[k + 1]].priority < priority
        positions == 1..Len(old.children)
    IN /\ r.err = NoPanic
       /\ r.nodes[c].priority = priority
       /\ r.pos \in 0..i
       /\ new.children[r.pos + 1] = c
       /\ \A k \in r.pos..(i - 1) : lower(k)
       /\ r.pos > 0 => ~lower(r.pos - 1)
       /\ Len(new.children) = Len(old.children)
       /\ Len(new.indices) = Len(old.indices)
       /\ \A k \in positions :
            \E k2 \in positions : /\ new.children[k2] = old.children[k]
                                  /\ new.indices[k2] = old.indices[k]
       /\ \A m \in 1..Len(h) :
            /\ m \notin {n, c} => r.nodes[m] = h[m]
            /\ m = c /\ m # n => r.nodes[m] = [h[m] EXCEPT !.priority = priority]
       /\ new = [old EXCEPT !.children = new.children, !.indices = new.indices]

\* the nodes whose children are reached through index bytes
Indexed(h) == {n \in 1..Len(h) : Len(h[n].children) > 0 /\ Len(h[n].indices) = Len(h[n].children)}

\* C30: incrementChildNodePriorityAndSwapIfNeeded(i) raises the priority of
\* child i by one, moves it left past exactly the left neighbours of strictly
\* lower priority, swaps the index bytes with the children, leaves the set of
\* children unchanged and returns the child's new position. Checked for one
\* call on every node of every tree built by successful calls, and for a
\* second call after it.
C30_IncrementMovesChildLeft ==
    BuiltBySuccessfulCalls =>
      \A n \in Indexed(nodes) : \A i \in 0..(Len(nodes[n].children) - 1) :
        /\ IncrementShape(nodes, n, i)
        /\ LET h1 == incrementChildNodePriorityAndSwapIfNeeded(nodes, n, i).nodes
           IN \A j \in 0..(Len(nodes[n].children) - 1) : IncrementShape(h1, n, j)

\* AddRoute("/bc") has raised the second of two children over the first: it
\* comes first now, with its index byte
C30_Witness ==
    /\ BuiltBySuccessfulCalls /\ Added /\ op.err = NoPanic
    /\ op.path = <<"/", "b", "c">>
    /\ \E n \in NodeIds :
         /\ nodes[n].indices = <<"b", "a">>
         /\ Len(nodes[n].children) = 2
         /\ nodes[nodes[n].children[1]].path[1] = "b"
         /\ nodes[nodes[n].children[1]].priority = 2
         /\ nodes[nodes[n].children[2]].path[1] = "a"
         /\ nodes[nodes[n].children[2]].priority = 1

\* x and y are children of one node of tree h, x in front of y
SiblingsInOrder(h, x, y) ==
    \E n \in 1..Len(h) : \E i, j \in 1..Len(h[n].children) :
      i < j /\ h[n].children[i] = x /\ h[n].children[j] = y

RECURSIVE spelledFrom(_, _, _, _, _)
spelledFrom(pattern, i, out, req, j) ==
    IF i > Len(pattern) THEN j > Len(out)
    ELSE IF pattern[i] = "/" /\ i < Len(pattern) /\ pattern[i + 1] = "*"
    THEN SubSeq(out, j, Len(out)) = SubSeq(req, j, Len(req))
    ELSE IF pattern[i] = ":"
    THEN /\ SubSeq(out, j, segmentEnd(out, j) - 1) = SubSeq(req, j, segmentEnd(out, j) - 1)
         /\ spelledFrom(pattern, segmentEnd(pattern, i), out, req, segmentEnd(out, j))
    ELSE /\ j <= Len(out)
         /\ out[j] = pattern[i]
         /\ spelledFrom(pattern, i + 1, out, req, j + 1)

\* the request path as the trailing-slash fix has made it: as long as out
Adjusted(req, out) ==
    IF Len(req) = Len(out) THEN req ELSE ToggleTrailingSlash(req)

StaticOnly == \A r \in routes : \A k \in 1..Len(r.path) : r.path[k] \notin {":", "*"}

\* C33: on a tree of static patterns, findCaseInsensitivePath(path, false)
\* returns found = true exactly when a registered pattern equals path under
\* case folding, and then returns such a pattern: the lower-case one where the
\* branches of both cases of a letter lead to a match.
C33_StaticLookupFindsFoldedPattern ==
    Found /\ StaticOnly /\ ~op.fixTrailingSlash =>
      /\ res.found <=> \E r \in routes : EqualFold(r.path, op.path)
      /\ res.found => /\ Registered(res.fixedPath)
                      /\ EqualFold(res.fixedPath, op.path)
                      /\ Registered(LowerCase(op.path)) => res.fixedPath = LowerCase(op.path)

\* C34: an AddRoute call that fails leaves the tree as it was before the
\* call, so that every later AddRoute and Resolve goes as if the call had
\* never been made.
C34_FailedAddRouteLeavesTree ==
    [][calls' = calls + 1 /\ op'.err # NoPanic => nodes' = nodes]_vars

\* C35: once Resolve returns a handler for a path, it returns the same
\* handler and the same parameter names and values for that path after every
\* further AddRoute call, successful or failing.
C35_MatchSurvivesAddRoute ==
    [][calls' = calls + 1 =>
         \A path \in RequestPaths :
           LET before == Resolve(nodes, path)
               after == Resolve(nodes', path)
           IN before.handler # NilHandler =>
                /\ after.handler = before.handler
                /\ after.ps.parameters = before.ps.parameters]_vars

\* the third AddRoute call has failed, and a path with a parameter still
\* resolves to the handler of the first call
C35_Witness ==
    /\ Added /\ op.err # NoPanic /\ calls = 3
    /\ \E path \in RequestPaths :
         LET r == Resolve(nodes, path)
         IN r.handler = 1 /\ Len(r.ps.parameters) > 0

\* the request paths of the lookups in a tree of static patterns: the short
\* paths, the patterns and the patterns with the trailing slash toggled
StaticRequestPaths ==
    RequestPaths \cup StaticPatterns \cup {ToggleTrailingSlash(p) : p \in StaticPatterns}

\* the tree that registering the routes of left, one after the other in an
\* order that depends on the set only, makes of the tree h
RECURSIVE treeOf(_, _)
treeOf(h, left) ==
    IF left = {}
    THEN h
    ELSE LET r == CHOOSE x \in left : TRUE
         IN treeOf(AddRouteOn(h, r.path, r.handler).nodes, left \ {r})

\* C36: in a tree of distinct static patterns every AddRoute call of a
\* pattern that is not registered yet succeeds; Resolve of any request path
\* returns the handler and the tsr flag that it returns on the tree built
\* from the same routes in another order, and the handler is non-nil exactly
\* when the request path is equal to a registered pattern (and is then the
\* handler registered with it).
C36_StaticLookupsIgnoreInsertionOrder ==
    /\ Added /\ ~op.registered /\ op.err # NoPanic => failures > 1
    /\ BuiltBySuccessfulCalls =>
         LET other == treeOf(<<ZeroNode>>, routes)
         IN \A path \in StaticRequestPaths :
              LET r == Resolve(nodes, path)
                  o == Resolve(other, path)
              IN /\ r.panic = NoPanic
                 /\ r.handler = o.handler
                 /\ r.tsr = o.tsr
                 /\ r.handler # NilHandler <=> Registered(path)
                 /\ Registered(path) => r.handler = HandlerOf(path)

\* four static patterns are registered in an order that lays the tree out
\* differently from the other order; one request path resolves to a handler
\* and another one gets the trailing-slash recommendation
C36_Witness ==
    /\ Added /\ BuiltBySuccessfulCalls /\ Cardinality(routes) = MaxStaticCalls
    /\ nodes # treeOf(<<ZeroNode>>, routes)
    /\ Resolve(nodes, <<"/", "a", "b">>).handler # NilHandler
    /\ Resolve(nodes, <<"/", "c">>).tsr

\* the nodes of the subtree of n, each with the concatenation of the path
\* fields from the root down to it (prefix is the concatenation above n)
RECURSIVE endingsBelow(_, _, _)
endingsBelow(h, n, prefix) ==
    LET full == prefix \o h[n].path
        ch == h[n].children
    IN {[node |-> n, path |-> full]}
         \cup UNION {endingsBelow(h, ch[k], full) : k \in 1..Len(ch)}

\* C37: after successful AddRoute calls, the path fields from the root down
\* to a node that holds a handler spell the pattern registered with that
\* handler, and every registered pattern ends at a node of its own, which
\* holds its handler.
C37_HandlerNodesSpellTheirPattern ==
    BuiltBySuccessfulCalls =>
      LET ends == endingsBelow(nodes, Root, <<>>)
      IN /\ \A e \in ends :
              nodes[e.node].handler # NilHandler =>
                \E r \in routes :
                  r.path = e.path /\ r.handler = nodes[e.node].handler
         /\ \A r \in routes :
              \E e \in ends :
                e.path = r.path /\ nodes[e.node].handler = r.handler
         /\ \A r1, r2 \in routes : \A e \in ends :
              (r1.path = e.path /\ r2.path = e.path
                 /\ nodes[e.node].handler # NilHandler) => r1 = r2

\* three patterns are registered, one of them a prefix of another and one
\* with a parameter, so that a handler sits at a node that was split and at a
\* wildcard node
C37_Witness ==
    /\ Added /\ BuiltBySuccessfulCalls /\ Cardinality(routes) = 3
    /\ \E r1, r2 \in routes :
         /\ Len(r1.path) < Len(r2.path)
         /\ SubSeq(r2.path, 1, Len(r1.path)) = r1.path
    /\ \E n \in NodeIds :
         nodes[n].nodeType = "param" /\ nodes[n].handler # NilHandler

\* the bytes of no request path: the value of a wildcard that got none
NoValue == <<"?">>

\* pattern[i..] with its wildcards replaced: the k-th (and each later)
\* wildcard by the value of the parameter of that position that carries the
\* wildcard's name, a `:name` by the value alone and a final `/*name`,
\* slash included, by the value
RECURSIVE substituteFrom(_, _, _, _)
substituteFrom(pattern, i, parameters, k) ==
    LET valueOf(name) ==
            IF k <= Len(parameters) /\ parameters[k].Key = name
            THEN parameters[k].Value
            ELSE NoValue
    IN IF i > Len(pattern) THEN <<>>
       ELSE IF pattern[i] = ":"
       THEN valueOf(SubSeq(pattern, i + 1, segmentEnd(pattern, i) - 1))
              \o substituteFrom(pattern, segmentEnd(pattern, i), parameters, k + 1)
       ELSE IF pattern[i] = "/" /\ i < Len(pattern) /\ pattern[i + 1] = "*"
       THEN valueOf(SubSeq(pattern, i + 2, segmentEnd(pattern, i + 1) - 1))
       ELSE <<pattern[i]>> \o substituteFrom(pattern, i + 1, parameters, k)

Substitute(pattern, parameters) == substituteFrom(pattern, 1, parameters, 1)

\* C38: when Resolve(path) returns the handler registered with pattern P,
\* P with each `:name` replaced by the value returned for name, and a final
\* `/*name` by the value returned for it, is path.
C38_SubstitutedPatternIsPath ==
    (op.name = "Resolve" /\ res.handler # NilHandler) =>
        \A r \in routes :
            r.handler = res.handler =>
                Substitute(r.path, GetParameters(res.ps)) = op.path

\* a pattern with a parameter and a catch-all was matched, and both values
\* are needed to spell the request path
C38_Witness ==
    /\ op.name = "Resolve" /\ res.handler # NilHandler
    /\ \E r \in routes :
         /\ r.handler = res.handler
         /\ Len(res.ps.parameters) = 2
         /\ \E i \in 1..Len(r.path) : r.path[i] = "*"
         /\ Len(res.ps.parameters[1].Value) > 0
         /\ Len(res.ps.parameters[2].Value) > 1
         /\ Substitute(r.path, res.ps.parameters) = op.path
         /\ r.path # op.path

\* the wildcard markers of a pattern, in the pattern's order
Wildcards(pattern) == SelectSeq(pattern, LAMBDA c : c \in {":", "*"})

\* C39: when Resolve returns the handler of a registered pattern, every value
\* bound to a `:name` of the pattern is a non-empty piece of the request path
\* without a slash; a request path with an empty segment at the position of
\* the parameter does not resolve to a handler.
C39_ParameterValuesAreNonEmptySegments ==
    (Resolved /\ res.handler # NilHandler) =>
        \A r \in routes :
            r.handler = res.handler =>
                \A k \in 1..Len(Wildcards(r.path)) :
                    Wildcards(r.path)[k] = ":" =>
                        /\ k <= Len(res.ps.parameters)
                        /\ Len(res.ps.parameters[k].Value) > 0
                        /\ \A i \in 1..Len(res.ps.parameters[k].Value) :
                               res.ps.parameters[k].Value[i] # "/"

\* C40: Resolve never returns a non-nil handler together with tsr = true.
C40_HandlerExcludesTsr ==
    op.name = "Resolve" => ~(res.handler # NilHandler /\ res.tsr)

\* both kinds of result occur on one tree: the request path gets the
\* recommendation and no handler, and the path with the slash toggled gets
\* the handler and no recommendation
C40_Witness ==
    /\ op.name = "Resolve" /\ res.tsr /\ res.handler = NilHandler
    /\ LET r == Resolve(nodes, ToggleTrailingSlash(op.path))
       IN r.handler # NilHandler /\ ~r.tsr

=============================================================================
